---- MODULE Spec2Model ----
(***************************************************************************)
(* KidsSmart+ Educational Finder: the search-classify-filter pipeline of   *)
(* app.py and the result store of database.py.                             *)
(*                                                                         *)
(* Python strings are modelled as sequences of one-character strings, so   *)
(* that lower(), strip(), slicing, join and the substring test `in` are    *)
(* computed as Python computes them.                                       *)
(***************************************************************************)
EXTENDS Integers, Sequences, FiniteSets, TLC

\* ---------------------------------------------------------------- bounds
\* longest organic_results list the search provider answers with
MaxOrganic == 2
\* a search is started only while the store holds fewer than MaxRows rows
MaxRows == 1
\* number of rows the store operations insert when exercised on their own
MaxSaves == 3

\* ------------------------------------------------------ string primitives
Min(a, b) == IF a < b THEN a ELSE b

\* characters removed by str.strip() and separating words for str.split()
Whitespace == {" ", "\t", "\n"}

LowerMap ==
  ("A" :> "a") @@ ("B" :> "b") @@ ("C" :> "c") @@ ("D" :> "d") @@ ("E" :> "e") @@
  ("F" :> "f") @@ ("G" :> "g") @@ ("H" :> "h") @@ ("I" :> "i") @@ ("J" :> "j") @@
  ("K" :> "k") @@ ("L" :> "l") @@ ("M" :> "m") @@ ("N" :> "n") @@ ("O" :> "o") @@
  ("P" :> "p") @@ ("Q" :> "q") @@ ("R" :> "r") @@ ("S" :> "s") @@ ("T" :> "t") @@
  ("U" :> "u") @@ ("V" :> "v") @@ ("W" :> "w") @@ ("X" :> "x") @@ ("Y" :> "y") @@
  ("Z" :> "z")

\* str.lower()
lower(s) ==
  [k \in 1..Len(s) |-> IF s[k] \in DOMAIN LowerMap THEN LowerMap[s[k]] ELSE s[k]]

\* the Python test `sub in s`
contains(sub, s) ==
  \E k \in 0..(Len(s) - Len(sub)) : SubSeq(s, k + 1, k + Len(sub)) = sub

\* the Python slice s[:n]
Take(s, n) == SubSeq(s, 1, Min(n, Len(s)))

\* str.strip()
strip(s) ==
  LET keep == {k \in 1..Len(s) : s[k] \notin Whitespace}
  IN  IF keep = {} THEN <<>>
      ELSE SubSeq(s, CHOOSE k \in keep : \A m \in keep : k <= m,
                     CHOOSE k \in keep : \A m \in keep : k >= m)

\* " ".join(parts)
RECURSIVE join(_)
join(parts) ==
  IF parts = <<>> THEN <<>>
  ELSE IF Len(parts) = 1 THEN parts[1]
  ELSE parts[1] \o <<" ">> \o join(Tail(parts))

\* " ".join(s.split()): runs of whitespace collapse to one blank, ends trimmed
RECURSIVE collapse(_, _)
collapse(s, prevBlank) ==
  IF s = <<>> THEN <<>>
  ELSE IF s[1] \in Whitespace
       THEN (IF prevBlank THEN <<>> ELSE <<" ">>) \o collapse(Tail(s), TRUE)
       ELSE <<s[1]>> \o collapse(Tail(s), FALSE)

normalize_ws(s) == collapse(strip(s), FALSE)

\* dict.get(key, ""): a hit is a function whose domain is the keys present
Get(r, key) == IF key \in DOMAIN r THEN r[key] ELSE <<>>

\* ------------------------------------------------------ program constants
ANY == <<"A","n","y">>
PLACEHOLDER_KEY == <<"Y","O","U","R","_","S","E","R","P","A","P","I","_","K","E","Y","_","H","E","R","E">>

COUNTRY_REGIONS ==
  (<<"A","n","y">> :> <<<<"A","n","y">>>>) @@
  (<<"A","u","s","t","r","a","l","i","a">> :> <<<<"A","n","y">>, <<"M","e","l","b","o","u","r","n","e">>, <<"S","y","d","n","e","y">>, <<"B","r","i","s","b","a","n","e">>, <<"P","e","r","t","h">>, <<"A","d","e","l","a","i","d","e">>>>) @@
  (<<"U","n","i","t","e","d"," ","S","t","a","t","e","s">> :> <<<<"A","n","y">>, <<"N","e","w"," ","Y","o","r","k">>, <<"L","o","s"," ","A","n","g","e","l","e","s">>, <<"C","h","i","c","a","g","o">>, <<"S","a","n"," ","F","r","a","n","c","i","s","c","o">>>>) @@
  (<<"U","n","i","t","e","d"," ","K","i","n","g","d","o","m">> :> <<<<"A","n","y">>, <<"L","o","n","d","o","n">>, <<"M","a","n","c","h","e","s","t","e","r">>, <<"B","i","r","m","i","n","g","h","a","m">>>>) @@
  (<<"C","a","n","a","d","a">> :> <<<<"A","n","y">>, <<"T","o","r","o","n","t","o">>, <<"V","a","n","c","o","u","v","e","r">>, <<"M","o","n","t","r","e","a","l">>>>) @@
  (<<"I","n","d","i","a">> :> <<<<"A","n","y">>, <<"M","u","m","b","a","i">>, <<"D","e","l","h","i">>, <<"B","e","n","g","a","l","u","r","u">>, <<"C","h","e","n","n","a","i">>>>)

EDU_KEYWORDS ==
  << <<"c","o","u","r","s","e">>, <<"c","l","a","s","s">>, <<"w","o","r","k","s","h","o","p">>, <<"t","r","a","i","n","i","n","g">>, <<"t","u","t","o","r","i","a","l">>,
     <<"w","e","b","i","n","a","r">>, <<"l","e","c","t","u","r","e">>, <<"p","r","o","g","r","a","m">>, <<"d","e","g","r","e","e">>, <<"d","i","p","l","o","m","a">>,
     <<"c","e","r","t","i","f","i","c","a","t","e">>, <<"b","o","o","t","c","a","m","p">>, <<"s","e","m","i","n","a","r">>, <<"l","e","a","r","n">>, <<"e","d","u","c","a","t","i","o","n">>, <<"s","t","u","d","y">> >>

TYPE_OPTIONS == {<<"A","n","y">>, <<"C","o","u","r","s","e">>, <<"S","e","m","i","n","a","r"," ","/"," ","W","o","r","k","s","h","o","p">>, <<"V","i","d","e","o"," ","/"," ","L","e","c","t","u","r","e">>, <<"A","r","t","i","c","l","e"," ","/"," ","O","t","h","e","r">>}
MODE_OPTIONS == {<<"A","n","y">>, <<"O","n","l","i","n","e">>, <<"I","n","-","p","e","r","s","o","n">>}
COST_OPTIONS == {<<"A","n","y">>, <<"F","r","e","e">>, <<"P","a","i","d"," ","/"," ","U","n","k","n","o","w","n">>}

\* slider "Max results from Google": default 8
NUM_RESULTS_DEFAULT == 8
\* scrape_page(url, max_chars=1500)
MAX_CHARS == 1500
\* raw_text = combined[:2000]
RAW_TEXT_MAX == 2000
\* snippet fallback page_text[:300]
SNIPPET_MAX == 300

\* ------------------------------------------------------ validation helpers
is_educational(text) ==
  LET t == lower(text)
  IN  \E k \in 1..Len(EDU_KEYWORDS) : contains(EDU_KEYWORDS[k], t)

classify_type(text) ==
  LET t == lower(text)
  IN  IF contains(<<"w","e","b","i","n","a","r">>, t) \/ contains(<<"s","e","m","i","n","a","r">>, t) \/ contains(<<"w","o","r","k","s","h","o","p">>, t)
        THEN <<"S","e","m","i","n","a","r"," ","/"," ","W","o","r","k","s","h","o","p">>
      ELSE IF contains(<<"v","i","d","e","o">>, t) \/ contains(<<"y","o","u","t","u","b","e">>, t) \/ contains(<<"l","e","c","t","u","r","e">>, t)
        THEN <<"V","i","d","e","o"," ","/"," ","L","e","c","t","u","r","e">>
      ELSE IF contains(<<"c","o","u","r","s","e">>, t) \/ contains(<<"s","h","o","r","t"," ","c","o","u","r","s","e">>, t)
              \/ contains(<<"b","o","o","t","c","a","m","p">>, t) \/ contains(<<"m","o","o","c">>, t)
        THEN <<"C","o","u","r","s","e">>
      ELSE <<"A","r","t","i","c","l","e"," ","/"," ","O","t","h","e","r">>

classify_mode(text) ==
  LET t == lower(text)
  IN  IF contains(<<"o","n","l","i","n","e">>, t) \/ contains(<<"v","i","r","t","u","a","l">>, t)
         \/ contains(<<"r","e","m","o","t","e">>, t) \/ contains(<<"s","e","l","f","-","p","a","c","e","d">>, t)
        THEN <<"O","n","l","i","n","e">>
      ELSE IF contains(<<"c","a","m","p","u","s">>, t) \/ contains(<<"i","n","-","p","e","r","s","o","n">>, t) \/ contains(<<"o","n"," ","c","a","m","p","u","s">>, t)
              \/ contains(<<"c","l","a","s","s","r","o","o","m">>, t) \/ contains(<<"v","e","n","u","e">>, t)
        THEN <<"I","n","-","p","e","r","s","o","n">>
      ELSE <<"U","n","k","n","o","w","n">>

classify_cost(text) ==
  LET t == lower(text)
  IN  IF contains(<<"f","r","e","e">>, t) \/ contains(<<"n","o"," ","c","o","s","t">>, t)
        THEN <<"F","r","e","e">>
      ELSE IF contains(<<"$">>, t) \/ contains(<<"a","u","d">>, t) \/ contains(<<"f","e","e">>, t)
              \/ contains(<<"p","e","r"," ","m","o","n","t","h">>, t) \/ contains(<<"p","e","r"," ","y","e","a","r">>, t)
        THEN <<"P","a","i","d"," ","/"," ","U","n","k","n","o","w","n">>
      ELSE <<"U","n","k","n","o","w","n">>

\* as matches_location, requiring country and region both in the text
matches_location_both(combined_text, country, region) ==
  LET text == lower(combined_text)
      c == lower(country)
      r == lower(region)
  IN  IF country = ANY THEN TRUE
      ELSE IF region = ANY THEN contains(c, text)
      ELSE contains(c, text) /\ contains(r, text)

matches_location(combined_text, country, region) ==
  LET text == lower(combined_text)
      c == lower(country)
      r == lower(region)
  IN  IF country = ANY THEN TRUE
      ELSE IF region = ANY THEN contains(c, text)
      ELSE contains(c, text) \/ contains(r, text)

\* ------------------------------------------------------------ the world
\* None, as database.save_result may receive it for content
None == <<"None">>

SeqsUpTo(S, n) == UNION {[1..m -> S] : m \in 0..n}

\* entries the search provider may list under "organic_results"; a key that
\* is absent from the function is a key absent from the dict
OrganicPool ==
  { [title |-> <<"K","i","d","s"," ","R","o","b","o","t","i","c","s"," ","C","o","u","r","s","e">>, link |-> <<"h","t","t","p",":","/","/","x">>,
     snippet |-> <<"F","r","e","e"," ","o","n","l","i","n","e"," ","r","o","b","o","t","i","c","s"," ","c","o","u","r","s","e"," ","f","o","r"," ","c","h","i","l","d","r","e","n">>],
    [title |-> <<"U","n","r","e","l","a","t","e","d"," ","p","a","g","e">>, link |-> <<"h","t","t","p",":","/","/","y">>],
    [title |-> <<"N","o"," ","l","i","n","k"," ","c","o","u","r","s","e">>, snippet |-> <<"c","o","u","r","s","e">>] }

\* what GoogleSearch(params).get_dict() does: raises, or returns a dict
Responses ==
  { [raise |-> <<"t","i","m","e","o","u","t">>] } \cup
  { [data |-> [error |-> <<"n","o"," ","r","e","s","u","l","t","s">>]] } \cup
  { [data |-> [organic_results |-> l]] : l \in SeqsUpTo(OrganicPool, MaxOrganic) }

\* what requests.get(url) does: raises, or returns a page with this text
PagePool ==
  { <<" "," ","M","e","l","b","o","u","r","n","e"," "," ","A","u","s","t","r","a","l","i","a","\n","p","r","o","g","r","a","m"," ">> }

FetchOutcomes == { [raise |-> <<"t","i","m","e","o","u","t">>] } \cup { [text |-> p] : p \in PagePool }

\* what the user types and selects before pressing Search
TopicInputs == { <<>>, <<" ","\t">>, <<"a","i">> }

FilterInputs ==
  { [type |-> <<"A","n","y">>, mode |-> <<"A","n","y">>, cost |-> <<"A","n","y">>,
     country |-> <<"A","n","y">>, region |-> <<"A","n","y">>],
    [type |-> <<"C","o","u","r","s","e">>, mode |-> <<"O","n","l","i","n","e">>, cost |-> <<"F","r","e","e">>,
     country |-> <<"A","u","s","t","r","a","l","i","a">>, region |-> <<"M","e","l","b","o","u","r","n","e">>],
    [type |-> <<"A","n","y">>, mode |-> <<"O","n","l","i","n","e">>, cost |-> <<"P","a","i","d"," ","/"," ","U","n","k","n","o","w","n">>,
     country |-> <<"A","u","s","t","r","a","l","i","a">>, region |-> <<"A","n","y">>] }

\* the selectboxes only offer these combinations
ValidFilters(f) ==
  /\ f.type \in TYPE_OPTIONS
  /\ f.mode \in MODE_OPTIONS
  /\ f.cost \in COST_OPTIONS
  /\ f.country \in DOMAIN COUNTRY_REGIONS
  /\ \E n \in 1..Len(COUNTRY_REGIONS[f.country]) : COUNTRY_REGIONS[f.country][n] = f.region

KeyInputs == { PLACEHOLDER_KEY, <<"k","3","y">> }

\* ------------------------------------------------------------ the store
MaxOf(S) == CHOOSE m \in S : \A o \in S : o <= m

\* INSERT INTO results(query,title,link,content): AUTOINCREMENT takes the id
\* one above the largest id ever assigned
save_result(rws, sq, query, title, link, content) ==
  LET id == MaxOf({sq} \cup {r.id : r \in rws}) + 1
      row == [id |-> id, query |-> query, title |-> title, link |-> link,
              content |-> IF content = None \/ content = <<>> THEN <<>> ELSE content]
  IN  [rows |-> rws \cup {row}, seq |-> id]

\* as get_results, with ORDER BY id ASC
RECURSIVE get_results_asc(_)
get_results_asc(rws) ==
  IF rws = {} THEN <<>>
  ELSE LET low == CHOOSE r \in rws : \A o \in rws : r.id <= o.id
       IN  << <<low.id, low.query, low.title, low.link, low.content>> >>
           \o get_results_asc(rws \ {low})

\* SELECT id, query, title, link, content FROM results ORDER BY id DESC
RECURSIVE get_results(_)
get_results(rws) ==
  IF rws = {} THEN <<>>
  ELSE LET top == CHOOSE r \in rws : \A o \in rws : o.id <= r.id
       IN  << <<top.id, top.query, top.title, top.link, top.content>> >>
           \o get_results(rws \ {top})

\* ------------------------------------------------------------ search_web
base_parts(tp, f) ==
  <<tp, <<"e","d","u","c","a","t","i","o","n">>, <<"c","o","u","r","s","e"," ","O","R"," ","w","o","r","k","s","h","o","p"," ","O","R"," ","w","e","b","i","n","a","r"," ","O","R"," ","t","r","a","i","n","i","n","g">>>>
  \o (IF f.type = <<"C","o","u","r","s","e">> THEN <<<<"c","o","u","r","s","e">>>>
      ELSE IF f.type = <<"S","e","m","i","n","a","r"," ","/"," ","W","o","r","k","s","h","o","p">> THEN <<<<"s","e","m","i","n","a","r"," ","O","R"," ","w","o","r","k","s","h","o","p">>>>
      ELSE IF f.type = <<"V","i","d","e","o"," ","/"," ","L","e","c","t","u","r","e">> THEN <<<<"v","i","d","e","o"," ","O","R"," ","l","e","c","t","u","r","e">>>>
      ELSE <<>>)
  \o (IF f.mode = <<"O","n","l","i","n","e">> THEN <<<<"o","n","l","i","n","e">>>>
      ELSE IF f.mode = <<"I","n","-","p","e","r","s","o","n">> THEN <<<<"i","n"," ","p","e","r","s","o","n"," ","O","R"," ","o","n"," ","c","a","m","p","u","s">>>>
      ELSE <<>>)
  \o (IF f.cost = <<"F","r","e","e">> THEN <<<<"f","r","e","e">>>>
      ELSE IF f.cost = <<"P","a","i","d"," ","/"," ","U","n","k","n","o","w","n">> THEN <<<<"f","e","e"," ","O","R"," ","$">>>>
      ELSE <<>>)

build_tries(tp, f) ==
  LET base == base_parts(tp, f)
  IN  (IF f.country # ANY /\ f.region # ANY THEN <<base \o <<f.country, f.region>>>> ELSE <<>>)
      \o (IF f.country # ANY THEN <<base \o <<f.country>>>> ELSE <<>>)
      \o <<base>>

_run_serpapi_query(data, max_results) ==
  LET all == IF "organic_results" \in DOMAIN data THEN data.organic_results ELSE <<>>
      organic == Take(all, max_results)
      kept == SelectSeq(organic, LAMBDA r : Get(r, "link") # <<>>)
  IN  [n \in 1..Len(kept) |->
         [title |-> Get(kept[n], "title"), link |-> Get(kept[n], "link"),
          snippet |-> Get(kept[n], "snippet")]]

\* as scrape_page, returning an empty text when the fetch fails
scrape_page_blank(outcome, max_chars) ==
  IF "raise" \in DOMAIN outcome
  THEN <<>>
  ELSE Take(normalize_ws(outcome.text), max_chars)

\* ------------------------------------------------------------ scrape_page
scrape_page(outcome, max_chars) ==
  IF "raise" \in DOMAIN outcome
  THEN <<"(","s","c","r","a","p","e"," ","e","r","r","o","r",":"," ">> \o outcome.raise \o <<")">>
  ELSE Take(normalize_ws(outcome.text), max_chars)

\* ------------------------------------------------------------ the handler
combined_of(r, pt) == r.title \o <<" ">> \o Get(r, "snippet") \o <<" ">> \o pt

not_educational(combined) == ~ is_educational(combined)
wrong_location(combined, f) == ~ matches_location(combined, f.country, f.region)
wrong_type(combined, f) == f.type # ANY /\ classify_type(combined) # f.type
wrong_mode(combined, f) == f.mode # ANY /\ classify_mode(combined) # f.mode
\* as wrong_cost, with the cost filter never applied
wrong_cost_skipped(combined, f) == FALSE
wrong_cost(combined, f) == f.cost # ANY /\ classify_cost(combined) # f.cost

make_item(r, pt, f) ==
  LET combined == combined_of(r, pt)
  IN  [title |-> r.title, link |-> r.link,
       snippet |-> IF Get(r, "snippet") # <<>> THEN Get(r, "snippet") ELSE Take(pt, SNIPPET_MAX),
       type |-> classify_type(combined), mode |-> classify_mode(combined),
       cost |-> classify_cost(combined), country |-> f.country, region |-> f.region,
       raw_text |-> Take(combined, RAW_TEXT_MAX)]

content_of(item) ==
  <<"[","T","Y","P","E",":">> \o item.type \o <<"]","[","M","O","D","E",":">> \o item.mode \o <<"]","[","C","O","S","T",":">> \o item.cost
  \o <<"]","[","C","O","U","N","T","R","Y",":">> \o item.country \o <<"]","[","R","E","G","I","O","N",":">> \o item.region \o <<"]","\n">>
  \o item.raw_text

\* as progress_value, counting the hits from 0
progress_value_from_zero(n, total) == <<n - 1, total>>
progress_value(n, total) == <<n, total>>

VARIABLES
  API_KEY,        \* st.secrets["SERPAPI_API_KEY"]
  pc,             \* where the script run is
  topic, filters, num_results,   \* the widgets' values of this run
  tries, t,       \* search_web: the candidates and the index of the next one
  queried,        \* the calls made to the search provider, with what came back
  search_results, \* what search_web returned
  i, page_text,   \* the loop: index of the current hit, its page text
  fetched,        \* the calls of scrape_page: link, what the fetch did, text returned
  items,          \* the accepted results
  prog,           \* the values given to prog.progress
  out,            \* the messages shown (st.warning, st.error, st.info, st.success)
  j,              \* the save loop: index of the next item to save
  rows, seq,      \* table results and its AUTOINCREMENT counter
  saved,          \* every INSERT made, in order
  mark,           \* Len(saved) when the run started
  listed,         \* what get_results last returned
  loc             \* matches_location on its own: its arguments and its result

vars == <<API_KEY, pc, topic, filters, num_results, tries, t, queried, search_results,
          i, page_text, fetched, items, prog, out, j, rows, seq, saved, mark, listed, loc>>

run_vars == <<topic, filters, num_results, tries, t, queried, search_results,
              i, page_text, fetched, items, prog, out, j>>
store_vars == <<rows, seq, saved>>

LocIdle == [text |-> <<>>, country |-> ANY, region |-> ANY, applied |-> FALSE, result |-> FALSE]

InitRun ==
  /\ pc = "idle"
  /\ topic = <<>> /\ filters = CHOOSE f \in FilterInputs : f.country = ANY
  /\ num_results = NUM_RESULTS_DEFAULT
  /\ tries = <<>> /\ t = 1 /\ queried = <<>> /\ search_results = <<>>
  /\ i = 1 /\ page_text = <<>> /\ fetched = <<>> /\ items = <<>> /\ prog = <<>>
  /\ out = <<>> /\ j = 1
  /\ rows = {} /\ seq = 0 /\ saved = <<>> /\ mark = 0
  /\ listed = <<>>

Init ==
  /\ API_KEY \in KeyInputs
  /\ InitRun
  /\ loc = LocIdle

\* as topic_missing, without strip()
topic_missing_unstripped(tp) == tp = <<>>

\* `if not topic.strip()`
topic_missing(tp) == strip(tp) = <<>>

\* the fixed texts of st.warning / st.error / st.info / st.success
MSG_NO_TOPIC == "Please enter a topic."
MSG_NO_KEY == "Set your SerpAPI key in app.py (API_KEY)."
MSG_SEARCH_ERROR == "Search error: {e}"
MSG_ZERO_SEARCH == "Online search returned 0 results, even after relaxing location. Try changing the topic or filters."
MSG_FOUND == "Found {len(search_results)} results. Scraping pages for validation..."
MSG_ZERO_FILTERED == "Search worked, but no pages matched all filters (including location). Try relaxing filters or region."
MSG_SUCCESS == "Showing {len(items)} validated educational resources (live web scraping)"

\* one message on the page: its kind, its text, the values formatted into it
Msg(level, text, args) == [level |-> level, text |-> text, args |-> args]

\* the script is rerun from the top: every local of the previous run is gone
Fresh(tp, f, num) ==
  /\ pc \in {"idle", "done", "stopped_early", "stopped"}
  /\ Cardinality(rows) < MaxRows
  /\ tp \in TopicInputs /\ f \in FilterInputs /\ ValidFilters(f)
  /\ topic' = tp /\ filters' = f /\ num_results' = num
  /\ queried' = <<>> /\ search_results' = <<>>
  /\ i' = 1 /\ page_text' = <<>> /\ fetched' = <<>> /\ items' = <<>> /\ prog' = <<>>
  /\ j' = 1 /\ mark' = Len(saved)
  /\ UNCHANGED <<API_KEY, rows, seq, saved, listed, loc>>

\* Search pressed with a blank topic
EmptyTopic ==
  \E tp \in TopicInputs, f \in FilterInputs :
    /\ Fresh(tp, f, NUM_RESULTS_DEFAULT)
    /\ topic_missing(tp)
    /\ out' = <<Msg("warning", MSG_NO_TOPIC, <<>>)>>
    /\ pc' = "done"
    /\ tries' = <<>> /\ t' = 1

\* Search pressed, search_web finds the key left at its placeholder
SearchNoKey ==
  \E tp \in TopicInputs, f \in FilterInputs :
    /\ Fresh(tp, f, NUM_RESULTS_DEFAULT)
    /\ ~ topic_missing(tp)
    /\ API_KEY = PLACEHOLDER_KEY
    /\ out' = <<Msg("error", MSG_NO_KEY, <<>>)>>
    /\ tries' = <<>> /\ t' = 1
    /\ pc' = "searched"

\* Search pressed, search_web builds its candidates
SearchBegin ==
  \E tp \in TopicInputs, f \in FilterInputs :
    /\ Fresh(tp, f, NUM_RESULTS_DEFAULT)
    /\ ~ topic_missing(tp)
    /\ API_KEY # PLACEHOLDER_KEY
    /\ out' = <<>>
    /\ tries' = build_tries(tp, f) /\ t' = 1
    /\ pc' = "query"

\* as AfterQuery, returning after the first candidate whatever it gave
AfterQuery_first_only(results) ==
  /\ search_results' = results /\ pc' = "searched" /\ t' = t

\* search_web: `if results: return results`, else the next candidate, else []
AfterQuery(results) ==
  IF results # <<>>
  THEN search_results' = results /\ pc' = "searched" /\ t' = t
  ELSE /\ search_results' = <<>>
       /\ t' = t + 1
       /\ pc' = IF t = Len(tries) THEN "searched" ELSE "query"

\* one candidate is sent, the provider raises
QueryRaises ==
  \E resp \in Responses :
    /\ pc = "query"
    /\ "raise" \in DOMAIN resp
    /\ queried' = Append(queried, [q |-> join(tries[t]), num |-> num_results,
                                   raised |-> TRUE, hits |-> <<>>])
    /\ out' = Append(out, Msg("error", MSG_SEARCH_ERROR, <<resp.raise>>))
    /\ AfterQuery(<<>>)
    /\ UNCHANGED <<API_KEY, topic, filters, num_results, tries, i, page_text, fetched,
                   items, prog, j, rows, seq, saved, mark, listed, loc>>

\* one candidate is sent, the provider answers
QueryReturns ==
  \E resp \in Responses :
    /\ pc = "query"
    /\ "data" \in DOMAIN resp
    /\ LET results == _run_serpapi_query(resp.data, num_results)
       IN  /\ queried' = Append(queried, [q |-> join(tries[t]), num |-> num_results,
                                          raised |-> FALSE, hits |-> results])
           /\ AfterQuery(results)
    /\ UNCHANGED <<API_KEY, topic, filters, num_results, tries, i, page_text, fetched,
                   items, prog, out, j, rows, seq, saved, mark, listed, loc>>

\* `if not search_results`: the run ends with the error
ZeroSearchResults ==
  /\ pc = "searched"
  /\ search_results = <<>>
  /\ out' = Append(out, Msg("error", MSG_ZERO_SEARCH, <<>>))
  /\ pc' = "done"
  /\ UNCHANGED <<API_KEY, topic, filters, num_results, tries, t, queried, search_results,
                 i, page_text, fetched, items, prog, j, rows, seq, saved, mark, listed, loc>>

\* else: the info line, the progress bar at 0.0, the empty items list
StartScraping ==
  /\ pc = "searched"
  /\ search_results # <<>>
  /\ out' = Append(out, Msg("info", MSG_FOUND, <<Len(search_results)>>))
  /\ items' = <<>> /\ prog' = <<>> /\ i' = 1
  /\ pc' = "scrape"
  /\ UNCHANGED <<API_KEY, topic, filters, num_results, tries, t, queried, search_results,
                 page_text, fetched, j, rows, seq, saved, mark, listed, loc>>

\* one iteration up to its verdict: page_text = scrape_page(r["link"]), and
\* at the end of every path prog.progress(i / len(search_results))
Iterate(outcome) ==
  /\ pc = "scrape"
  /\ outcome \in FetchOutcomes
  /\ fetched' = Append(fetched, [link |-> search_results[i].link, outcome |-> outcome,
                                 text |-> scrape_page(outcome, MAX_CHARS)])
  /\ page_text' = scrape_page(outcome, MAX_CHARS)
  /\ prog' = Append(prog, progress_value(i, Len(search_results)))
  /\ i' = i + 1
  /\ pc' = IF i = Len(search_results) THEN "filtered" ELSE "scrape"
  /\ UNCHANGED <<API_KEY, topic, filters, num_results, tries, t, queried, search_results,
                 out, j, rows, seq, saved, mark, listed, loc>>

\* combined = f"{r['title']} {r.get('snippet','')} {page_text}"
Combined(outcome) == combined_of(search_results[i], scrape_page(outcome, MAX_CHARS))

RejectNotEducational ==
  \E outcome \in FetchOutcomes :
    /\ Iterate(outcome)
    /\ not_educational(Combined(outcome))
    /\ UNCHANGED items

RejectLocation ==
  \E outcome \in FetchOutcomes :
    /\ Iterate(outcome)
    /\ ~ not_educational(Combined(outcome))
    /\ wrong_location(Combined(outcome), filters)
    /\ UNCHANGED items

RejectType ==
  \E outcome \in FetchOutcomes :
    /\ Iterate(outcome)
    /\ ~ not_educational(Combined(outcome))
    /\ ~ wrong_location(Combined(outcome), filters)
    /\ wrong_type(Combined(outcome), filters)
    /\ UNCHANGED items

RejectMode ==
  \E outcome \in FetchOutcomes :
    /\ Iterate(outcome)
    /\ ~ not_educational(Combined(outcome))
    /\ ~ wrong_location(Combined(outcome), filters)
    /\ ~ wrong_type(Combined(outcome), filters)
    /\ wrong_mode(Combined(outcome), filters)
    /\ UNCHANGED items

RejectCost ==
  \E outcome \in FetchOutcomes :
    /\ Iterate(outcome)
    /\ ~ not_educational(Combined(outcome))
    /\ ~ wrong_location(Combined(outcome), filters)
    /\ ~ wrong_type(Combined(outcome), filters)
    /\ ~ wrong_mode(Combined(outcome), filters)
    /\ wrong_cost(Combined(outcome), filters)
    /\ UNCHANGED items

Accept ==
  \E outcome \in FetchOutcomes :
    /\ Iterate(outcome)
    /\ ~ not_educational(Combined(outcome))
    /\ ~ wrong_location(Combined(outcome), filters)
    /\ ~ wrong_type(Combined(outcome), filters)
    /\ ~ wrong_mode(Combined(outcome), filters)
    /\ ~ wrong_cost(Combined(outcome), filters)
    /\ items' = Append(items, make_item(search_results[i],
                                        scrape_page(outcome, MAX_CHARS), filters))

\* `if not items`: the run ends with the warning
ZeroAfterFiltering ==
  /\ pc = "filtered"
  /\ items = <<>>
  /\ out' = Append(out, Msg("warning", MSG_ZERO_FILTERED, <<>>))
  /\ pc' = "done"
  /\ UNCHANGED <<API_KEY, topic, filters, num_results, tries, t, queried, search_results,
                 i, page_text, fetched, items, prog, j, rows, seq, saved, mark, listed, loc>>

\* else: the success line, then the save loop starts
ShowSuccess ==
  /\ pc = "filtered"
  /\ items # <<>>
  /\ out' = Append(out, Msg("success", MSG_SUCCESS, <<Len(items)>>))
  /\ j' = 1
  /\ pc' = "save"
  /\ UNCHANGED <<API_KEY, topic, filters, num_results, tries, t, queried, search_results,
                 i, page_text, fetched, items, prog, rows, seq, saved, mark, listed, loc>>

\* as row_args, with the title saved as query
row_args_title_as_query(tp, item) ==
  [query |-> item.title, title |-> item.title, link |-> item.link,
   content |-> content_of(item)]

row_args(tp, item) ==
  [query |-> tp, title |-> item.title, link |-> item.link, content |-> content_of(item)]

\* `for item in items: save_result(...)`, one item
SaveItem ==
  /\ pc = "save"
  /\ LET a == row_args(topic, items[j])
         st == save_result(rows, seq, a.query, a.title, a.link, a.content)
     IN  /\ rows' = st.rows /\ seq' = st.seq
         /\ saved' = Append(saved, a)
  /\ j' = j + 1
  /\ pc' = IF j = Len(items) THEN "done" ELSE "save"
  /\ UNCHANGED <<API_KEY, topic, filters, num_results, tries, t, queried, search_results,
                 i, page_text, fetched, items, prog, out, mark, listed, loc>>

\* the script run is stopped where it is (the user interacts, the session
\* ends): its locals are gone, the widgets keep their values, the table keeps
\* its rows
Interrupt ==
  /\ pc \in {"query", "searched", "scrape", "filtered", "save"}
  /\ pc' = IF pc \in {"query", "searched", "scrape"} THEN "stopped_early" ELSE "stopped"
  /\ tries' = <<>> /\ t' = 1 /\ queried' = <<>> /\ search_results' = <<>>
  /\ i' = 1 /\ page_text' = <<>> /\ fetched' = <<>> /\ items' = <<>> /\ prog' = <<>>
  /\ out' = <<>> /\ j' = 1
  /\ UNCHANGED <<API_KEY, topic, filters, num_results, store_vars, mark, listed, loc>>

\* page "Saved Results": rows = get_results(); the Find Programs page is not run
ViewSaved ==
  /\ pc \in {"idle", "done", "stopped_early", "stopped"}
  /\ listed' = get_results(rows)
  /\ pc' = "idle"
  /\ topic' = <<>> /\ filters' = CHOOSE f \in FilterInputs : f.country = ANY
  /\ num_results' = NUM_RESULTS_DEFAULT
  /\ tries' = <<>> /\ t' = 1 /\ queried' = <<>> /\ search_results' = <<>>
  /\ i' = 1 /\ page_text' = <<>> /\ fetched' = <<>> /\ items' = <<>> /\ prog' = <<>>
  /\ out' = <<>> /\ j' = 1 /\ mark' = Len(saved)
  /\ UNCHANGED <<API_KEY, rows, seq, saved, loc>>

Next ==
  \/ EmptyTopic \/ SearchNoKey \/ SearchBegin
  \/ QueryRaises \/ QueryReturns
  \/ ZeroSearchResults \/ StartScraping
  \/ RejectNotEducational \/ RejectLocation \/ RejectType \/ RejectMode \/ RejectCost
  \/ Accept
  \/ ZeroAfterFiltering \/ ShowSuccess
  \/ SaveItem
  \/ Interrupt
  \/ ViewSaved

Spec == Init /\ [][Next]_vars

\* ------------------------------------------- the store, exercised on its own
StoreArgs ==
  [query : {<<"a","i">>, <<"a","r","t">>}, title : {<<"T">>}, link : {<<"h","t","t","p",":","/","/","x">>},
   content : {None, <<>>, <<"[","T","Y","P","E",":","C","o","u","r","s","e","]","\n","c">>}]

\* database.save_result called with any arguments
SaveRow ==
  \E a \in StoreArgs :
    /\ Len(saved) < MaxSaves
    /\ LET st == save_result(rows, seq, a.query, a.title, a.link, a.content)
       IN  rows' = st.rows /\ seq' = st.seq
    /\ saved' = Append(saved, a)
    /\ UNCHANGED <<API_KEY, pc, run_vars, mark, listed, loc>>

\* database.get_results called
ListRows ==
  /\ listed' = get_results(rows)
  /\ UNCHANGED <<API_KEY, pc, run_vars, store_vars, mark, loc>>

InitStore == API_KEY = <<"k","3","y">> /\ InitRun /\ loc = LocIdle

NextStore == SaveRow \/ ListRows

SpecStore == InitStore /\ [][NextStore]_vars

\* ------------------------------------ matches_location, exercised on its own
LocTexts ==
  { <<"M","e","l","b","o","u","r","n","e"," ","A","u","s","t","r","a","l","i","a"," ","p","r","o","g","r","a","m">>, <<"S","y","d","n","e","y"," ","p","r","o","g","r","a","m">>, <<"U","n","r","e","l","a","t","e","d"," ","p","a","g","e">>, <<>>,
    <<"M","E","L","B","O","U","R","N","E"," ","w","o","r","k","s","h","o","p">>, <<"S","t","u","d","y"," ","i","n"," ","a","u","s","t","r","a","l","i","a">>, <<"A","n","y">>, <<"N","e","w"," ","D","e","l","h","i",","," ","I","N","D","I","A">> }

LocPlaces ==
  { <<<<"A","n","y">>, <<"A","n","y">>>>, <<<<"A","u","s","t","r","a","l","i","a">>, <<"A","n","y">>>>, <<<<"A","u","s","t","r","a","l","i","a">>, <<"M","e","l","b","o","u","r","n","e">>>>,
    <<<<"A","u","s","t","r","a","l","i","a">>, <<"S","y","d","n","e","y">>>>, <<<<"I","n","d","i","a">>, <<"A","n","y">>>>, <<<<"I","n","d","i","a">>, <<"D","e","l","h","i">>>>,
    <<<<"C","a","n","a","d","a">>, <<"T","o","r","o","n","t","o">>>> }

ApplyLocation ==
  /\ ~ loc.applied
  /\ loc' = [loc EXCEPT !.applied = TRUE,
                        !.result = matches_location(loc.text, loc.country, loc.region)]
  /\ UNCHANGED <<API_KEY, pc, run_vars, store_vars, mark, listed>>

InitLoc ==
  /\ API_KEY = <<"k","3","y">> /\ InitRun
  /\ \E tx \in LocTexts, pl \in LocPlaces :
       loc = [text |-> tx, country |-> pl[1], region |-> pl[2],
              applied |-> FALSE, result |-> FALSE]

NextLoc == ApplyLocation

SpecLoc == InitLoc /\ [][NextLoc]_vars

\* ================================================================ claims
Reported(text) == \E n \in 1..Len(out) : out[n].text = text

\* the candidates the fallback is said to try, in the order it is said to try them
Candidates ==
  LET base == base_parts(topic, filters)
      c == filters.country
      r == filters.region
  IN  SelectSeq(<< [use |-> c # ANY /\ r # ANY, parts |-> base \o <<c, r>>],
                   [use |-> c # ANY, parts |-> base \o <<c>>],
                   [use |-> TRUE, parts |-> base] >>,
                LAMBDA e : e.use)

\* the checks a hit has to pass, on title + snippet + page text
Passes(r, text, f) ==
  LET c == r.title \o <<" ">> \o Get(r, "snippet") \o <<" ">> \o text
  IN  /\ is_educational(c)
      /\ matches_location(c, f.country, f.region)
      /\ (f.type # ANY => classify_type(c) = f.type)
      /\ (f.mode # ANY => classify_mode(c) = f.mode)
      /\ (f.cost # ANY => classify_cost(c) = f.cost)

\* the indices, in provider order, of the first n hits that pass with the text
\* txt[k] for hit k
RECURSIVE PassingIndices(_, _)
PassingIndices(n, txt) ==
  IF n = 0 THEN <<>>
  ELSE PassingIndices(n - 1, txt)
       \o (IF Passes(search_results[n], txt[n], filters) THEN <<n>> ELSE <<>>)

InLoop == pc \in {"scrape", "filtered", "save", "done"} /\ search_results # <<>>

\* C1: search_web sends the candidates one at a time in the order country +
\* region, country, base alone (each only when its location parts are set); a
\* candidate that raised or came back empty is followed by the next one; the
\* first candidate with hits ends the search, its hits are what search_web
\* returns, and nothing is sent after it.
C1_FallbackOrder ==
  pc \in {"query", "searched", "scrape", "filtered", "save", "done"} =>
    /\ Len(queried) <= Len(Candidates)
    /\ \A n \in 1..Len(queried) :
         /\ queried[n].q = join(Candidates[n].parts)
         /\ queried[n].raised => queried[n].hits = <<>>
         /\ n < Len(queried) => queried[n].hits = <<>>
    /\ pc = "query" =>
         /\ Len(queried) = t - 1 /\ t <= Len(Candidates)
         /\ \A n \in 1..Len(queried) : queried[n].hits = <<>>
    /\ pc # "query" =>
         IF queried # <<>> /\ queried[Len(queried)].hits # <<>>
         THEN search_results = queried[Len(queried)].hits
         ELSE /\ search_results = <<>>
              /\ queried # <<>> => Len(queried) = Len(Candidates)

C1_Witness ==
  /\ pc = "searched" /\ Len(queried) = 3
  /\ queried[1].raised /\ ~ queried[2].raised /\ queried[2].hits = <<>>
  /\ queried[3].hits # <<>> /\ search_results = queried[3].hits

\* C2: the accepted list is exactly the hits, in provider order, that are
\* educational, match the chosen location and agree with every filter that is
\* not "Any"; also when the hits came from a location-relaxed candidate.
C2_AcceptedExactly ==
  InLoop =>
    LET idx == PassingIndices(Len(fetched), [k \in 1..Len(fetched) |-> fetched[k].text])
    IN  /\ Len(items) = Len(idx)
        /\ \A m \in 1..Len(idx) :
             LET r == search_results[idx[m]]
                 c == r.title \o <<" ">> \o Get(r, "snippet") \o <<" ">> \o fetched[idx[m]].text
             IN  /\ items[m].title = r.title /\ items[m].link = r.link
                 /\ items[m].type = classify_type(c)
                 /\ items[m].mode = classify_mode(c)
                 /\ items[m].cost = classify_cost(c)

C2_Witness ==
  /\ pc = "filtered" /\ Len(queried) = 3 /\ filters.region # ANY
  /\ Len(search_results) = 2 /\ Len(items) = 1
  /\ search_results[1].link # search_results[2].link
  /\ items[1].link = search_results[2].link
  /\ is_educational(search_results[1].title \o <<" ">> \o Get(search_results[1], "snippet")
                    \o <<" ">> \o fetched[1].text)

\* C3: at the end of a run with a topic, "zero search results" is reported
\* iff every candidate came back empty or failed, "zero after filtering" iff
\* some candidate had hits and none was accepted; never both, and neither
\* when a hit was accepted.
C3_ZeroOutcomes ==
  (pc = "done" /\ strip(topic) # <<>>) =>
    /\ Reported(MSG_ZERO_SEARCH) <=>
         /\ Len(queried) = Len(Candidates)
         /\ \A n \in 1..Len(queried) : queried[n].hits = <<>>
    /\ Reported(MSG_ZERO_FILTERED) <=>
         /\ \E n \in 1..Len(queried) : queried[n].hits # <<>>
         /\ items = <<>>
    /\ ~ (Reported(MSG_ZERO_SEARCH) /\ Reported(MSG_ZERO_FILTERED))
    /\ items # <<>> => ~ Reported(MSG_ZERO_SEARCH) /\ ~ Reported(MSG_ZERO_FILTERED)

\* C4: no two accepted results of a run have the same link.
C4_NoDuplicateLinks ==
  \A m, n \in 1..Len(items) : m # n => items[m].link # items[n].link

\* C5 as stated: matchesLocation("Melbourne Australia program", "Australia",
\* "Melbourne") is true, ("Sydney program", "Australia", "Melbourne") is true,
\* ("Unrelated page", "Australia", "Melbourne") is false, country "Any" and
\* region "Any" is true for any text, and with both set the result is true iff
\* the lower-cased country or region occurs in the lower-cased text.
C5_AsStated ==
  LET at(tx, c, r) == loc.text = tx /\ loc.country = c /\ loc.region = r
  IN  loc.applied =>
        /\ at(<<"M","e","l","b","o","u","r","n","e"," ","A","u","s","t","r","a","l","i","a"," ","p","r","o","g","r","a","m">>, <<"A","u","s","t","r","a","l","i","a">>, <<"M","e","l","b","o","u","r","n","e">>) => loc.result
        /\ at(<<"S","y","d","n","e","y"," ","p","r","o","g","r","a","m">>, <<"A","u","s","t","r","a","l","i","a">>, <<"M","e","l","b","o","u","r","n","e">>) => loc.result
        /\ at(<<"U","n","r","e","l","a","t","e","d"," ","p","a","g","e">>, <<"A","u","s","t","r","a","l","i","a">>, <<"M","e","l","b","o","u","r","n","e">>) => ~ loc.result
        /\ (loc.country = <<"A","n","y">> /\ loc.region = <<"A","n","y">>) => loc.result
        /\ (loc.country # <<"A","n","y">> /\ loc.region # <<"A","n","y">>) =>
             (loc.result <=> \/ contains(lower(loc.country), lower(loc.text))
                             \/ contains(lower(loc.region), lower(loc.text)))

\* C5: as above, except that ("Sydney program", "Australia", "Melbourne") is
\* false: the text holds neither "australia" nor "melbourne".
C5_MatchesLocation ==
  LET at(tx, c, r) == loc.text = tx /\ loc.country = c /\ loc.region = r
  IN  loc.applied =>
        /\ at(<<"M","e","l","b","o","u","r","n","e"," ","A","u","s","t","r","a","l","i","a"," ","p","r","o","g","r","a","m">>, <<"A","u","s","t","r","a","l","i","a">>, <<"M","e","l","b","o","u","r","n","e">>) => loc.result
        /\ at(<<"S","y","d","n","e","y"," ","p","r","o","g","r","a","m">>, <<"A","u","s","t","r","a","l","i","a">>, <<"M","e","l","b","o","u","r","n","e">>) => ~ loc.result
        /\ at(<<"U","n","r","e","l","a","t","e","d"," ","p","a","g","e">>, <<"A","u","s","t","r","a","l","i","a">>, <<"M","e","l","b","o","u","r","n","e">>) => ~ loc.result
        /\ (loc.country = <<"A","n","y">> /\ loc.region = <<"A","n","y">>) => loc.result
        /\ (loc.country # <<"A","n","y">> /\ loc.region # <<"A","n","y">>) =>
             (loc.result <=> \/ contains(lower(loc.country), lower(loc.text))
                             \/ contains(lower(loc.region), lower(loc.text)))

C5_Witness ==
  /\ loc.applied /\ ~ loc.result
  /\ loc.text = <<"S","y","d","n","e","y"," ","p","r","o","g","r","a","m">> /\ loc.country = <<"A","u","s","t","r","a","l","i","a">> /\ loc.region = <<"M","e","l","b","o","u","r","n","e">>

\* C6: with n >= 1 hits, progress is given once per processed hit, accepted
\* or rejected, with value k/n for the k-th; the values increase strictly
\* and the last one is 1.
C6_Progress ==
  InLoop =>
    LET total == Len(search_results)
    IN  /\ Len(prog) = Len(fetched)
        /\ pc = "scrape" => Len(prog) = i - 1 /\ i <= total
        /\ pc # "scrape" => Len(prog) = total /\ prog[total][1] = prog[total][2]
        /\ \A k \in 1..Len(prog) : prog[k][2] > 0 /\ prog[k][1] * total = k * prog[k][2]
        /\ \A k \in 1..Len(prog) : \A m \in 1..Len(prog) :
             k < m => prog[k][1] * prog[m][2] < prog[m][1] * prog[k][2]

C6_Witness ==
  /\ pc = "filtered" /\ Len(search_results) = 2 /\ Len(items) = 1
  /\ prog = << <<1, 2>>, <<2, 2>> >>

\* C7: a failed fetch gives the placeholder "(scrape error: ...)", the hit is
\* judged on title + snippet + placeholder by the same checks, and every hit
\* of the list, the later ones included, is fetched.
C7_FetchFailure ==
  InLoop =>
    LET failed(k) == "raise" \in DOMAIN fetched[k].outcome
        holder(k) == <<"(","s","c","r","a","p","e"," ","e","r","r","o","r",":"," ">> \o fetched[k].outcome.raise \o <<")">>
        idx == PassingIndices(Len(fetched),
                 [k \in 1..Len(fetched) |-> IF failed(k) THEN holder(k) ELSE fetched[k].text])
    IN  /\ Len(fetched) = IF pc = "scrape" THEN i - 1 ELSE Len(search_results)
        /\ \A k \in 1..Len(fetched) :
             /\ fetched[k].link = search_results[k].link
             /\ failed(k) => fetched[k].text = holder(k)
        /\ Len(items) = Len(idx)
        /\ \A m \in 1..Len(idx) : items[m].link = search_results[idx[m]].link

C7_Witness ==
  /\ pc = "filtered" /\ Len(fetched) = 2
  /\ "raise" \in DOMAIN fetched[1].outcome /\ "text" \in DOMAIN fetched[2].outcome
  /\ Len(items) >= 1 /\ items[1].link = search_results[1].link
  /\ search_results[2].link # search_results[1].link

\* C8: Search pressed with an empty or whitespace-only topic shows the
\* warning and nothing else: no query, no fetch, no progress, no row saved.
C8_BlankTopic ==
  strip(topic) = <<>> =>
    /\ pc \notin {"query", "searched", "scrape", "filtered", "save"}
    /\ queried = <<>> /\ fetched = <<>> /\ prog = <<>> /\ items = <<>>
    /\ Len(saved) = mark
    /\ pc = "done" => out = <<Msg("warning", MSG_NO_TOPIC, <<>>)>>

C8_Witness ==
  /\ pc = "done" /\ topic # <<>> /\ strip(topic) = <<>>
  /\ out = <<Msg("warning", MSG_NO_TOPIC, <<>>)>>

\* the rows of the table by increasing id
RECURSIVE AscById(_)
AscById(S) ==
  IF S = {} THEN <<>>
  ELSE LET low == CHOOSE r \in S : \A o \in S : r.id <= o.id
       IN  <<low>> \o AscById(S \ {low})

C9_Rows ==
  LET asc == AscById(rows)
  IN  /\ \A r1, r2 \in rows : r1.id = r2.id => r1 = r2
      /\ Cardinality(rows) = Len(saved)
      /\ \A n \in 1..Len(saved) :
           /\ asc[n].query = saved[n].query /\ asc[n].title = saved[n].title
           /\ asc[n].link = saved[n].link
           /\ asc[n].content = (IF saved[n].content = None THEN <<>> ELSE saved[n].content)
           /\ n > 1 => asc[n].id > asc[n - 1].id

C9_Step ==
  /\ rows \subseteq rows'
  /\ \A r \in rows' \ rows : r.id > seq /\ \A o \in rows : r.id > o.id
  /\ listed' # listed =>
       LET asc == AscById(rows)
       IN  /\ Len(listed') = Len(asc)
           /\ \A n \in 1..Len(asc) :
                LET r == asc[Len(asc) + 1 - n]
                IN  listed'[n] = <<r.id, r.query, r.title, r.link, r.content>>

\* C9: ids are unique, every save takes an id above all ids given before and
\* leaves the existing rows as they are, and list returns all rows in the
\* reverse of the order they were saved in.
C9_Store == [] C9_Rows /\ [][C9_Step]_vars

C9_Witness ==
  /\ Len(saved) = 3 /\ Len(listed) = 3
  /\ listed[1][1] > listed[2][1] /\ listed[2][1] > listed[3][1]
  /\ listed[1][2] = saved[3].query /\ saved[3].query # saved[1].query

\* C10: a run saves nothing before its last hit is processed; a run that
\* reaches its end has saved one row per accepted result, in order, with the
\* topic as query; a run ending in the empty-topic warning, in zero search
\* results or in zero after filtering, or stopped before its last hit was
\* processed, has saved nothing.
C10_SaveAfterLoop ==
  LET added == SubSeq(saved, mark + 1, Len(saved))
      expected(n) == [query |-> topic, title |-> items[n].title, link |-> items[n].link,
                      content |-> content_of(items[n])]
  IN  /\ pc \in {"query", "searched", "scrape", "filtered", "stopped_early"} => added = <<>>
      /\ pc = "save" => /\ Len(added) = j - 1
                        /\ \A n \in 1..Len(added) : added[n] = expected(n)
      /\ pc = "done" => /\ Len(added) = Len(items)
                        /\ \A n \in 1..Len(added) : added[n] = expected(n)
      /\ (pc = "done" /\ (Reported(MSG_NO_TOPIC) \/ Reported(MSG_ZERO_SEARCH)
                          \/ Reported(MSG_ZERO_FILTERED))) => added = <<>>
      /\ Cardinality(rows) = Len(saved)
      /\ \A n \in 1..Len(saved) :
           \E r \in rows : /\ r.id = n /\ r.query = saved[n].query
                           /\ r.title = saved[n].title /\ r.link = saved[n].link
                           /\ r.content = saved[n].content

C10_Witness ==
  /\ pc = "done" /\ Len(items) = 2 /\ Len(saved) = mark + 2
  /\ saved[mark + 1].query = topic /\ saved[mark + 2].link = items[2].link
====
